---- MODULE Spec2Model ----
(***************************************************************************)
(* Model of src/etl_keras.py: the ETL class.                               *)
(*                                                                         *)
(*   clean_data            generator scanning the table window by window   *)
(*   create_clean_datafile writer pulling clean_data into an hdf5 file     *)
(*   generate_clean_data   reader slicing batches back out of the file     *)
(*   zero_base_standardize per-window normalisation                        *)
(*                                                                         *)
(* Numbers.  A number is a pair <<n, d>>: the rational n/d in lowest terms *)
(* with d > 0 when finite, and the IEEE-754 specials with d = 0:           *)
(* <<0,0>> is NaN, <<1,0>> is +inf, <<-1,0>> is -inf.  float64 arithmetic  *)
(* on the small operands used here is modelled as exact; the float32       *)
(* storage type of the hdf5 datasets is modelled by rounding to a 24-bit   *)
(* significand.                                                            *)
(***************************************************************************)
EXTENDS Integers, Sequences, FiniteSets, TLC

----------------------------------------------------------------------------
(* Bounds of the explored inputs.                                          *)

\* longest one-column table explored (rows)
MaxRows == 4
\* largest batch_size explored
MaxBatch == 2
\* largest x_window_size + y_window_size explored
MaxSpan == 3
\* largest start_index handed to generate_clean_data
MaxStart == 1
\* number of pulls made from generate_clean_data (the reader never ends)
MaxPulls == 2

----------------------------------------------------------------------------
(* Numbers                                                                 *)

NaN == <<0, 0>>
PosInf == <<1, 0>>
NegInf == <<-1, 0>>

Abs(n) == IF n < 0 THEN -n ELSE n
Sign(n) == IF n < 0 THEN -1 ELSE IF n > 0 THEN 1 ELSE 0
Min(a, b) == IF a < b THEN a ELSE b

RECURSIVE Gcd(_, _)
Gcd(a, b) == IF b = 0 THEN a ELSE Gcd(b, a % b)

\* the rational n/d (d # 0) in lowest terms with a positive denominator
Rat(n, d) ==
    LET g == Gcd(Abs(n), Abs(d))
        s == Sign(d)
    IN  <<(s * n) \div g, (s * d) \div g>>

Num(n) == <<n, 1>>
IsFinite(v) == v[2] # 0
IsNaN(v) == v = NaN

\* faulty variant: a zero divisor is replaced by a quotient of zero
Div_safe(a, b) ==
    IF IsNaN(a) \/ IsNaN(b) THEN NaN
    ELSE IF IsFinite(b) /\ b[1] = 0 THEN Num(0)
    ELSE IF IsFinite(a) /\ IsFinite(b) THEN Rat(a[1] * b[2], a[2] * b[1])
    ELSE IF ~IsFinite(a) /\ ~IsFinite(b) THEN NaN
    ELSE IF ~IsFinite(a)
         THEN IF b[1] < 0 THEN <<-a[1], 0>> ELSE a
    ELSE Num(0)

\* IEEE division a / b, as pandas/numpy perform it (no exception on a zero
\* divisor: x/0 is +-inf, 0/0 is NaN)
Div(a, b) ==
    IF IsNaN(a) \/ IsNaN(b) THEN NaN
    ELSE IF IsFinite(a) /\ IsFinite(b)
         THEN IF b[1] # 0 THEN Rat(a[1] * b[2], a[2] * b[1])
              ELSE IF a[1] = 0 THEN NaN
              ELSE IF a[1] > 0 THEN PosInf ELSE NegInf
    ELSE IF ~IsFinite(a) /\ ~IsFinite(b) THEN NaN
    ELSE IF ~IsFinite(a)
         THEN IF b[1] < 0 THEN <<-a[1], 0>> ELSE a
    ELSE Num(0)

\* IEEE addition
Add(a, b) ==
    IF IsNaN(a) \/ IsNaN(b) THEN NaN
    ELSE IF IsFinite(a) /\ IsFinite(b)
         THEN Rat(a[1] * b[2] + b[1] * a[2], a[2] * b[2])
    ELSE IF ~IsFinite(a) /\ ~IsFinite(b)
         THEN IF a = b THEN a ELSE NaN
    ELSE IF IsFinite(a) THEN b ELSE a

Sub(a, b) == Add(a, IF IsNaN(b) THEN NaN ELSE <<-b[1], b[2]>>)

RECURSIVE Sum(_)
Sum(s) == IF s = <<>> THEN Num(0) ELSE Add(s[1], Sum(Tail(s)))

\* np.average of a 1-d array: the sum divided by the count
average(s) == Div(Sum(s), Num(Len(s)))

\* <<a * 2^k, 2^k>> for the least k >= 0 with a * 2^k >= 2^23 * d
\* (a > 0, d > 0, a < 2^24 * d; p is the power of two reached so far)
RECURSIVE ScaleUp(_, _, _)
ScaleUp(a, d, p) ==
    IF a \div d >= 8388608 THEN <<a, p>> ELSE ScaleUp(2 * a, d, 2 * p)

\* conversion of a float64 value to float32 (round to nearest, ties to
\* even, 24-bit significand); magnitudes stay far inside the float32
\* exponent range, so there is neither overflow nor a subnormal result
Float32(v) ==
    IF ~IsFinite(v) \/ v[1] = 0 THEN v
    ELSE IF v[2] = 1 /\ Abs(v[1]) < 16777216 THEN v
    ELSE LET d == v[2]
             sc == ScaleUp(Abs(v[1]), d, 1)
             q == sc[1] \div d
             r == sc[1] % d
             m == IF 2 * r > d \/ (2 * r = d /\ q % 2 = 1) THEN q + 1 ELSE q
         IN  Rat(Sign(v[1]) * m, sc[2])

----------------------------------------------------------------------------
(* Inputs: the source table and the constructor arguments                  *)

\* values a cell of the csv file takes besides NaN (a missing cell)
CellValues == {Num(0), Num(1), Num(3)}
Cells == CellValues \cup {NaN}

\* a table: its column names and its rows, each row one cell per column
Table(columns, rows) == [columns |-> columns, rows |-> rows]

\* the window sizes explored
WindowSizes ==
    {w \in (1..MaxSpan) \X (1..MaxSpan) : w[1] + w[2] <= MaxSpan}

\* ETL.__init__: the arguments kept by the object (with the table that
\* filename_in holds)
ETL(table, batch_size, x_window_size, y_window_size, ycol, filter_cols, normalize) ==
    [table |-> table, batch_size |-> batch_size,
     x_window_size |-> x_window_size, y_window_size |-> y_window_size,
     y_col |-> ycol, filter_cols |-> filter_cols, normalize |-> normalize]

\* tables with the single column close, scanned on that column
NarrowConfig(c) ==
    \E r \in 0..MaxRows : \E rs \in [1..r -> [1..1 -> Cells]] :
    \E b \in 1..MaxBatch : \E w \in WindowSizes : \E n \in BOOLEAN :
        c = ETL(Table(<<"close">>, rs), b, w[1], w[2], "close", <<>>, n)

\* two-row tables with the columns close and volume, filtered or not, and
\* asked for either column
WideConfig(c) ==
    \E rs \in [1..2 -> [1..2 -> {Num(1), Num(3), NaN}]] :
    \E b \in 1..MaxBatch : \E w \in WindowSizes : \E n \in BOOLEAN :
    \E yc \in {"close", "volume"} : \E f \in {<<>>, <<"close">>} :
        c = ETL(Table(<<"close", "volume">>, rs), b, w[1], w[2], yc, f, n)

\* eight-row tables of the single column close with one missing cell, scanned
\* with windows of one row and batches of four
GapConfig(c) ==
    \E m \in 1..8 :
        c = ETL(Table(<<"close">>,
                      [r \in 1..8 |-> <<IF r = m THEN NaN ELSE Num(1)>>]),
                4, 1, 1, "close", <<>>, FALSE)

\* the table of the end-to-end scenario: 20 rows, one column close = 1..20
E2ETable == Table(<<"close">>, [r \in 1..20 |-> <<Num(r)>>])

E2EConfig == ETL(E2ETable, 2, 3, 1, "close", <<>>, TRUE)

----------------------------------------------------------------------------
(* Helpers of clean_data                                                   *)

Range(s) == {s[k] : k \in DOMAIN s}

\* python slice s[lo:hi] of a sequence, 0-based and clipped to its length
Slice(s, lo, hi) ==
    IF Min(hi, Len(s)) <= lo THEN <<>> ELSE SubSeq(s, lo + 1, Min(hi, Len(s)))

\* indices (1-based) of the columns kept by the filter, in table order
KeptColumns(columns, filter_cols) ==
    IF filter_cols = <<>> THEN [k \in 1..Len(columns) |-> k]
    ELSE LET keep(k) == columns[k] \in Range(filter_cols)
             RECURSIVE Pick(_)
             Pick(k) == IF k > Len(columns) THEN <<>>
                        ELSE IF keep(k) THEN <<k>> \o Pick(k + 1)
                        ELSE Pick(k + 1)
         IN  Pick(1)

\* the rows of the table with the filtered-out columns deleted
FilterData(table, filter_cols) ==
    LET kept == KeptColumns(table.columns, filter_cols)
    IN  [columns |-> [k \in 1..Len(kept) |-> table.columns[kept[k]]],
         rows |-> [r \in 1..Len(table.rows) |->
                      [k \in 1..Len(kept) |-> table.rows[r][kept[k]]]]]

\* list(data.columns).index(name): 1-based position, 0 when absent (ValueError)
ColumnIndex(columns, name) ==
    IF name \in Range(columns)
    THEN CHOOSE k \in 1..Len(columns) : columns[k] = name
    ELSE 0

\* faulty variant: the last window position is left out
LoopCond_strict(idx, xw, yw, num_rows) == (idx + xw + yw) < num_rows

\* the while condition of the scan
LoopCond(idx, xw, yw, num_rows) == (idx + xw + yw) <= num_rows

\* faulty variant: all() in place of any()
HasNull_all(window) ==
    \A r \in 1..Len(window) : \A c \in 1..Len(window[r]) : IsNaN(window[r][c])

\* window.isnull().values.any()
HasNull(window) ==
    \E r \in 1..Len(window) : \E c \in 1..Len(window[r]) : IsNaN(window[r][c])

\* faulty variant: the base handed in is ignored, each window is its own base
zero_base_standardize_own(window, abs_base) ==
    [abs_base |-> window[1],
     data |-> [r \in 1..Len(window) |->
                 [c \in 1..Len(window[r]) |->
                     Sub(Div(window[r][c], window[1][c]), Num(1))]]]

\* zero_base_standardize: abs_base = <<>> stands for the empty default
zero_base_standardize(window, abs_base) ==
    LET base == IF abs_base = <<>> THEN window[1] ELSE abs_base
    IN  [abs_base |-> base,
         data |-> [r \in 1..Len(window) |->
                     [c \in 1..Len(window[r]) |->
                         Sub(Div(window[r][c], base[c]), Num(1))]]]

\* faulty variant: the first column is averaged whatever y_col is
ColumnOf_first(window, c) == [r \in 1..Len(window) |-> window[r][1]]

\* column c (1-based) of a window
ColumnOf(window, c) == [r \in 1..Len(window) |-> window[r][c]]

\* the (input window, target) pair computed for scan position idx
WindowPair(rows, idx, xw, yw, ycol, normalize) ==
    LET xraw == Slice(rows, idx, idx + xw)
        yraw == Slice(rows, idx + xw, idx + xw + yw)
        xs == zero_base_standardize(xraw, <<>>)
        ys == zero_base_standardize(yraw, xs.abs_base)
        xwin == IF normalize THEN xs.data ELSE xraw
        ywin == IF normalize THEN ys.data ELSE yraw
    IN  [x |-> xwin, y |-> average(ColumnOf(ywin, ycol))]

\* faulty variant: the scan index moves on by two rows
Advance_two(idx) == idx + 2

\* i += 1, after a rejected and after an accepted window alike
Advance(idx) == idx + 1

\* faulty variant: the accumulator is kept after a yield
NewAccumulator_kept(acc) == acc

\* x_data = [] and y_data = [] before the yield: acc is the list let go
NewAccumulator(acc) == <<>>

\* the yield test made after an accepted window
ShouldYield(idx, batch_size) == idx % batch_size = 0

----------------------------------------------------------------------------
(* Helpers of the hdf5 datasets                                            *)

CastWindow(w) == [r \in 1..Len(w) |-> [c \in 1..Len(w[r]) |-> Float32(w[r][c])]]

\* what a dataset created without a dtype stores for an assigned array:
\* h5py's default dtype is float32
StoreX(xs) == [k \in 1..Len(xs) |-> CastWindow(xs[k])]
StoreY(ys) == [k \in 1..Len(ys) |-> Float32(ys[k])]

\* faulty variant: the running count is advanced by one per batch
NextCount_perBatch(rcount, batch) == rcount + 1

\* rcount += batch.shape[0]
NextCount(rcount, batch) == rcount + Len(batch)

\* faulty variant: the slice ends at batch_size instead of cursor + batch_size
ReadBatch_fixedEnd(arr, cursor, batch_size) ==
    IF Min(batch_size, Len(arr)) <= cursor THEN <<>>
    ELSE SubSeq(arr, cursor + 1, Min(batch_size, Len(arr)))

\* hf[name][i:i + batch_size]
ReadBatch(arr, cursor, batch_size) == Slice(arr, cursor, cursor + batch_size)

\* dset.resize(n, axis=0): truncate, or extend with the fill value
Resize(arr, n, fill) ==
    [k \in 1..n |-> IF k <= Len(arr) THEN arr[k] ELSE fill]

\* dset[start:] = vals
AssignTail(arr, start, vals) ==
    [k \in 1..Len(arr) |->
        IF k > start /\ k - start <= Len(vals) THEN vals[k - start] ELSE arr[k]]

----------------------------------------------------------------------------
(* State                                                                   *)

VARIABLES
    cfg,        \* the ETL object: constructor arguments and the csv table
    g_pc,       \* clean_data generator: "created", "scan", "yielded", "done", "raised"
    data,       \* clean_data: rows of the table after column filtering
    y_col,      \* clean_data: numerical index of the y column
    i,          \* clean_data: scan index (0-based)
    x_data,     \* clean_data: accumulated input windows
    y_data,     \* clean_data: accumulated targets
    out,        \* the batch handed over by the last yield
    visited,    \* history: scan positions examined, in order
    accepted,   \* history: accepted windows, in order
    emitted,    \* history: batches yielded by clean_data, in order
    w_pc,       \* create_clean_datafile: "start", "first_pull", "loop_pull", "done", "error"
    exc,        \* exception that left create_clean_datafile, "" if none
    hf,         \* the hdf5 file: state, dataset names, contents of x and y
    rcount_x,   \* create_clean_datafile: running count for x
    rcount_y,   \* create_clean_datafile: running count for y
    batch_i,    \* create_clean_datafile: progress counter i
    consumed,   \* history: batches create_clean_datafile received, in order
    r_pc,       \* generate_clean_data: "created", "running", "KeyError"
    start_index,\* generate_clean_data: its argument
    r_i,        \* generate_clean_data: cursor i
    pulled      \* history: batches generate_clean_data yielded, in order

gen_vars == <<g_pc, data, y_col, i, x_data, y_data, out, visited, accepted, emitted>>
writer_vars == <<w_pc, exc, hf, rcount_x, rcount_y, batch_i, consumed>>
reader_vars == <<r_pc, start_index, r_i, pulled>>
vars == <<cfg, gen_vars, writer_vars, reader_vars>>

NoFile == [state |-> "absent", keys |-> {}, x |-> <<>>, y |-> <<>>]
EmptyBatch == [x |-> <<>>, y |-> <<>>]

Init ==
    /\ \/ NarrowConfig(cfg)
       \/ WideConfig(cfg)
       \/ GapConfig(cfg)
       \/ cfg = E2EConfig
    /\ g_pc = "created"
    /\ data = <<>>
    /\ y_col = 0
    /\ i = 0
    /\ x_data = <<>>
    /\ y_data = <<>>
    /\ out = EmptyBatch
    /\ visited = <<>>
    /\ accepted = <<>>
    /\ emitted = <<>>
    /\ w_pc = "start"
    /\ exc = ""
    /\ hf = NoFile
    /\ rcount_x = 0
    /\ rcount_y = 0
    /\ batch_i = 0
    /\ consumed = <<>>
    /\ r_pc = "created"
    /\ start_index = 0
    /\ r_i = 0
    /\ pulled = <<>>

----------------------------------------------------------------------------
(* create_clean_datafile and the clean_data generator it pulls             *)

\* the with-block is left: h5py closes the file, which stays on disk
CloseFile(f) == [f EXCEPT !.state = "closed"]

\* an exception leaves create_clean_datafile through the with-block
WriterRaise(e) ==
    /\ w_pc' = "error"
    /\ exc' = e
    /\ hf' = CloseFile(hf)
    /\ UNCHANGED <<rcount_x, rcount_y, batch_i, consumed>>

\* faulty variant: the end of the generator at the first draw is taken for completion
WriterOnExhausted_silent(at) ==
    /\ w_pc' = "done"
    /\ hf' = CloseFile(hf)
    /\ UNCHANGED <<exc, rcount_x, rcount_y, batch_i, consumed>>

\* how the end of the generator reaches the writer: next() at the first
\* draw raises StopIteration, the for loop just ends
WriterOnExhausted(at) ==
    IF at = "first_pull"
    THEN WriterRaise("StopIteration")
    ELSE /\ w_pc' = "done"
         /\ hf' = CloseFile(hf)
         /\ UNCHANGED <<exc, rcount_x, rcount_y, batch_i, consumed>>

\* data_gen = self.clean_data(); i = 0; h5py.File(filename_out, 'w')
WriterOpen ==
    /\ w_pc = "start"
    /\ w_pc' = "first_pull"
    /\ hf' = [state |-> "open", keys |-> {}, x |-> <<>>, y |-> <<>>]
    /\ batch_i' = 0
    /\ UNCHANGED <<cfg, gen_vars, exc, rcount_x, rcount_y, consumed, reader_vars>>

\* first next(data_gen): clean_data runs up to its loop
GenStart ==
    /\ w_pc = "first_pull"
    /\ g_pc = "created"
    /\ LET filtered == FilterData(cfg.table, cfg.filter_cols)
           idx == ColumnIndex(filtered.columns, cfg.y_col)
       IN  IF idx = 0
           THEN /\ g_pc' = "raised"
                /\ WriterRaise("ValueError")
                /\ UNCHANGED <<data, y_col, i, x_data, y_data>>
           ELSE /\ g_pc' = "scan"
                /\ data' = filtered.rows
                /\ y_col' = idx
                /\ i' = 0
                /\ x_data' = <<>>
                /\ y_data' = <<>>
                /\ UNCHANGED writer_vars
    /\ UNCHANGED <<cfg, out, visited, accepted, emitted, reader_vars>>

ScanEnabled ==
    /\ g_pc = "scan"
    /\ w_pc \in {"first_pull", "loop_pull"}
    /\ LoopCond(i, cfg.x_window_size, cfg.y_window_size, Len(data))

XWindow == Slice(data, i, i + cfg.x_window_size)
YWindow == Slice(data, i + cfg.x_window_size,
                 i + cfg.x_window_size + cfg.y_window_size)

\* a window holding a NaN is skipped
ScanReject ==
    /\ ScanEnabled
    /\ HasNull(XWindow) \/ HasNull(YWindow)
    /\ i' = Advance(i)
    /\ visited' = Append(visited, i)
    /\ UNCHANGED <<cfg, g_pc, data, y_col, x_data, y_data, out, accepted, emitted,
                   writer_vars, reader_vars>>

\* a window is accepted, and the batch is yielded when the test says so
ScanAccept ==
    /\ ScanEnabled
    /\ ~(HasNull(XWindow) \/ HasNull(YWindow))
    /\ LET pair == WindowPair(data, i, cfg.x_window_size, cfg.y_window_size,
                              y_col, cfg.normalize)
           xs == Append(x_data, pair.x)
           ys == Append(y_data, pair.y)
       IN  /\ i' = Advance(i)
           /\ visited' = Append(visited, i)
           /\ accepted' = Append(accepted, [pos |-> i, x |-> pair.x, y |-> pair.y])
           /\ IF ShouldYield(Advance(i), cfg.batch_size)
              THEN /\ out' = [x |-> xs, y |-> ys]
                   /\ emitted' = Append(emitted, [x |-> xs, y |-> ys])
                   /\ x_data' = NewAccumulator(xs)
                   /\ y_data' = NewAccumulator(ys)
                   /\ g_pc' = "yielded"
              ELSE /\ x_data' = xs
                   /\ y_data' = ys
                   /\ UNCHANGED <<out, emitted, g_pc>>
    /\ UNCHANGED <<cfg, data, y_col, writer_vars, reader_vars>>

\* the loop condition fails: the generator returns
ScanEnd ==
    /\ g_pc = "scan"
    /\ w_pc \in {"first_pull", "loop_pull"}
    /\ ~LoopCond(i, cfg.x_window_size, cfg.y_window_size, Len(data))
    /\ g_pc' = "done"
    /\ WriterOnExhausted(w_pc)
    /\ UNCHANGED <<cfg, data, y_col, i, x_data, y_data, out, visited, accepted,
                   emitted, reader_vars>>

\* x1, y1 = next(data_gen): the datasets are created from the first batch
WriterFirst ==
    /\ w_pc = "first_pull"
    /\ g_pc = "yielded"
    /\ rcount_x' = Len(out.x)
    /\ rcount_y' = Len(out.y)
    /\ hf' = [hf EXCEPT !.keys = {"x", "y"},
                        !.x = StoreX(out.x),
                        !.y = StoreY(out.y)]
    /\ consumed' = Append(consumed, out)
    /\ w_pc' = "loop_pull"
    /\ g_pc' = "scan"
    /\ UNCHANGED <<cfg, data, y_col, i, x_data, y_data, out, visited, accepted,
                   emitted, exc, batch_i, reader_vars>>

ZeroWindow(w) == [r \in 1..Len(w) |-> [c \in 1..Len(w[r]) |-> Num(0)]]

\* the body of the for loop: both datasets grow by the batch
WriterAppend ==
    /\ w_pc = "loop_pull"
    /\ g_pc = "yielded"
    /\ LET nx == rcount_x + Len(out.x)
           ny == rcount_y + Len(out.y)
       IN  /\ hf' = [hf EXCEPT
                       !.x = AssignTail(Resize(hf.x, nx, ZeroWindow(out.x[1])),
                                        rcount_x, StoreX(out.x)),
                       !.y = AssignTail(Resize(hf.y, ny, Num(0)),
                                        rcount_y, StoreY(out.y))]
           /\ rcount_x' = NextCount(rcount_x, out.x)
           /\ rcount_y' = NextCount(rcount_y, out.y)
    /\ batch_i' = batch_i + 1
    /\ consumed' = Append(consumed, out)
    /\ g_pc' = "scan"
    /\ UNCHANGED <<cfg, data, y_col, i, x_data, y_data, out, visited, accepted,
                   emitted, w_pc, exc, reader_vars>>

----------------------------------------------------------------------------
(* generate_clean_data, called once create_clean_datafile has returned     *)

WriterReturned == w_pc \in {"done", "error"}

\* one step of the reader's loop from cursor c
ReaderStep(c) ==
    /\ pulled' = Append(pulled,
                        [x |-> ReadBatch(hf.x, c, cfg.batch_size),
                         y |-> ReadBatch(hf.y, c, cfg.batch_size)])
    /\ r_i' = c + cfg.batch_size

\* generate_clean_data(start_index) and its first pull
ReaderFirstPull ==
    /\ WriterReturned
    /\ r_pc = "created"
    /\ "x" \in hf.keys
    /\ \E s \in 0..MaxStart :
          /\ start_index' = s
          /\ ReaderStep(s)
    /\ r_pc' = "running"
    /\ UNCHANGED <<cfg, gen_vars, writer_vars>>

\* the file holds no dataset x: hf['x'] raises KeyError
ReaderKeyError ==
    /\ WriterReturned
    /\ r_pc = "created"
    /\ "x" \notin hf.keys
    /\ r_pc' = "KeyError"
    /\ UNCHANGED <<cfg, gen_vars, writer_vars, start_index, r_i, pulled>>

\* every later pull
ReaderPull ==
    /\ r_pc = "running"
    /\ Len(pulled) < MaxPulls
    /\ ReaderStep(r_i)
    /\ UNCHANGED <<cfg, gen_vars, writer_vars, r_pc, start_index>>

----------------------------------------------------------------------------

Next ==
    \/ WriterOpen
    \/ GenStart
    \/ ScanReject
    \/ ScanAccept
    \/ ScanEnd
    \/ WriterFirst
    \/ WriterAppend
    \/ ReaderFirstPull
    \/ ReaderKeyError
    \/ ReaderPull

Spec == Init /\ [][Next]_vars

----------------------------------------------------------------------------
(* Properties of clean_data                                                *)

Batch_size == cfg.batch_size
XSize == cfg.x_window_size
YSize == cfg.y_window_size
NumRows == Len(cfg.table.rows)

\* some cell of rows lo+1 .. hi of the scanned data is missing
MissingIn(lo, hi) ==
    \E r \in (lo + 1)..hi : \E c \in 1..Len(data[r]) : data[r][c] = NaN

\* the source table has a missing cell
TableHasMissing ==
    \E r \in 1..NumRows : \E c \in 1..Len(cfg.table.rows[r]) :
        cfg.table.rows[r][c] = NaN

\* the input windows of a sequence of batches, in order
RECURSIVE ConcatX(_)
ConcatX(bs) == IF bs = <<>> THEN <<>> ELSE bs[1].x \o ConcatX(Tail(bs))

\* the targets of a sequence of batches, in order
RECURSIVE ConcatY(_)
ConcatY(bs) == IF bs = <<>> THEN <<>> ELSE bs[1].y \o ConcatY(Tail(bs))

\* C1: every batch emitted by clean_data holds exactly batch_size accepted
\* windows, whatever the table (missing cells included)
C1_ExactBatchSize ==
    \A k \in 1..Len(emitted) :
        /\ Len(emitted[k].x) = Batch_size
        /\ Len(emitted[k].y) = Batch_size

\* C2: on a table without missing values a full scan accepts
\* num_rows - x_window_size - y_window_size + 1 windows when the two windows
\* fit in the table, and none otherwise
C2_AcceptedCount ==
    (g_pc = "done" /\ ~TableHasMissing) =>
        Len(accepted) = IF XSize + YSize <= NumRows
                        THEN NumRows - XSize - YSize + 1
                        ELSE 0

C2_Witness ==
    /\ g_pc = "done"
    /\ ~TableHasMissing
    /\ cfg # E2EConfig
    /\ Len(accepted) >= 2

\* the scan stands at a position whose input or target window has a
\* missing cell
AtMissingWindow ==
    /\ g_pc = "scan"
    /\ i + XSize + YSize <= Len(data)
    /\ MissingIn(i, i + XSize + YSize)

\* the scan stands at a position whose windows are complete
AtCompleteWindow ==
    /\ g_pc = "scan"
    /\ i + XSize + YSize <= Len(data)
    /\ ~MissingIn(i, i + XSize + YSize)

\* C3: at a scan position whose input or target window has a missing cell
\* nothing is accumulated or emitted for that position, and the scan index
\* advances by exactly one row, as it does for an accepted window
C3_MissingWindowSkipped ==
    /\ [][AtMissingWindow =>
            /\ i' = i + 1
            /\ x_data' = x_data
            /\ y_data' = y_data
            /\ accepted' = accepted
            /\ emitted' = emitted
            /\ out' = out]_vars
    /\ [][AtCompleteWindow => i' = i + 1]_vars
    /\ [](\A k \in 1..Len(accepted) :
             ~MissingIn(accepted[k].pos, accepted[k].pos + XSize + YSize))

C3_Witness ==
    /\ g_pc = "done"
    /\ Len(accepted) >= 1
    /\ Len(visited) > Len(accepted)
    /\ emitted # <<>>

\* C4: a full scan that accepts A windows emits exactly A div batch_size
\* batches, which hold the first A - (A mod batch_size) accepted windows; the
\* last A mod batch_size accepted windows are in no batch
C4_Cadence ==
    g_pc = "done" =>
        LET A == Len(accepted)
            kept == A - (A % Batch_size)
        IN  /\ Len(emitted) = A \div Batch_size
            /\ ConcatX(emitted) = [k \in 1..kept |-> accepted[k].x]
            /\ ConcatY(emitted) = [k \in 1..kept |-> accepted[k].y]

----------------------------------------------------------------------------
(* Properties of create_clean_datafile and generate_clean_data             *)

\* C5: after create_clean_datafile has completed, the k-th batch pulled from
\* generate_clean_data(start_index=0) equals the k-th batch the writer
\* consumed, for every k up to the number of batches written
C5_RoundTrip ==
    (w_pc = "done" /\ r_pc = "running" /\ start_index = 0) =>
        \A k \in 1..Min(Len(pulled), Len(consumed)) : pulled[k] = consumed[k]

\* C6: once the first batch is written, and after every append, rcount_x and
\* rcount_y are equal, equal the stored lengths of x and y, and equal the
\* number of windows in the batches consumed so far; entry j of x and entry j
\* of y are the stored input window and target of the same accepted window
C6_CountsAligned ==
    w_pc \in {"loop_pull", "done"} =>
        /\ rcount_x = rcount_y
        /\ rcount_x = Len(hf.x)
        /\ rcount_y = Len(hf.y)
        /\ rcount_x = Len(ConcatX(consumed))
        /\ \A j \in 1..Len(hf.x) :
              /\ hf.x[j] = CastWindow(accepted[j].x)
              /\ hf.y[j] = Float32(accepted[j].y)

C6_Witness ==
    /\ w_pc = "done"
    /\ Len(consumed) >= 2
    /\ rcount_x >= 2
    /\ cfg # E2EConfig

\* C7: when create_clean_datafile ends in an error, no destination file is
\* left that can be opened as a valid container
C7_NoFileAfterFailure ==
    w_pc = "error" => hf.state = "absent"

\* C8: when clean_data yields no batch, create_clean_datafile ends in an
\* error raised at the first draw, with no x or y dataset created, and it
\* never completes successfully
C8_EmptyInputRaises ==
    /\ (g_pc = "done" /\ emitted = <<>>) =>
          /\ w_pc = "error"
          /\ exc = "StopIteration"
          /\ hf.keys = {}
          /\ consumed = <<>>
    /\ w_pc = "done" => emitted # <<>>

C8_Witness ==
    /\ g_pc = "done"
    /\ emitted = <<>>
    /\ visited # <<>>
    /\ w_pc = "error"

\* the first accepted window of the scenario: input [1,2,3] on base 1 is
\* [0,1,2], target row [4] on the same base is [3]
E2EFirstWindow ==
    /\ accepted[1].pos = 0
    /\ accepted[1].x = <<<<Num(0)>>, <<Num(1)>>, <<Num(2)>>>>
    /\ accepted[1].y = Num(3)

\* C9, as stated: the 20-row scenario accepts 16 windows and emits 8
\* batches, the first window being [0,1,2] with target 3
C9_E2E_AsStated ==
    (cfg = E2EConfig /\ g_pc = "done") =>
        /\ Len(accepted) = 16
        /\ Len(emitted) = 8
        /\ E2EFirstWindow

\* C9, amended: the 20-row scenario accepts 17 windows and emits 8 batches
\* of 2, the 17th window staying in the accumulator; the first window is
\* [0,1,2] with target 3
C9_E2E ==
    (cfg = E2EConfig /\ g_pc = "done") =>
        /\ Len(accepted) = 17
        /\ Len(emitted) = 8
        /\ \A k \in 1..8 : Len(emitted[k].x) = 2
        /\ Len(x_data) = 1
        /\ E2EFirstWindow

C9_Witness ==
    /\ cfg = E2EConfig
    /\ g_pc = "done"
    /\ w_pc = "done"

\* entries of arr with 0-based index in [lo, hi) that lie below its length
EntriesBelow(arr, lo, hi) ==
    LET top == IF hi < Len(arr) THEN hi ELSE Len(arr)
    IN  [j \in 1..(IF top > lo THEN top - lo ELSE 0) |-> arr[lo + j]]

\* C10: pull number k (from 0) of generate_clean_data(start_index) returns
\* the entries of x and of y with index in
\* [start_index + k*batch_size, start_index + (k+1)*batch_size) below the
\* stored length; the reader never ends: a further pull is always possible,
\* and a pull made with the cursor at or past the stored length is empty
C10_ReaderSlices ==
    r_pc = "running" =>
        /\ \A k \in 0..(Len(pulled) - 1) :
              LET lo == start_index + k * Batch_size
                  hi == start_index + (k + 1) * Batch_size
              IN  /\ pulled[k + 1].x = EntriesBelow(hf.x, lo, hi)
                  /\ pulled[k + 1].y = EntriesBelow(hf.y, lo, hi)
                  /\ lo >= Len(hf.x) => pulled[k + 1] = EmptyBatch
        /\ r_i = start_index + Len(pulled) * Batch_size
        /\ Len(pulled) < MaxPulls => ENABLED ReaderPull

C10_Witness ==
    /\ r_pc = "running"
    /\ Len(pulled) >= 2
    /\ pulled[1].x # <<>>
    /\ pulled[Len(pulled)] = EmptyBatch
    /\ r_i - Batch_size >= Len(hf.x)

----------------------------------------------------------------------------
(* Properties of the target, the scan order and the stored arrays           *)

\* v[1] + ... + v[n]
RECURSIVE Total(_, _)
Total(v, n) == IF n = 0 THEN Num(0) ELSE Add(Total(v, n - 1), v[n])

\* the mean of the y_col values of the target rows of position pos, each
\* divided by the y_col value of row pos and decremented by 1 when
\* normalize is set
MeanOfTargetRows(pos) ==
    LET base == data[pos + 1][y_col]
        val(k) == LET raw == data[pos + XSize + k][y_col]
                  IN  IF cfg.normalize THEN Sub(Div(raw, base), Num(1)) ELSE raw
    IN  Div(Total([k \in 1..YSize |-> val(k)], YSize), Num(YSize))

\* C11: the target of the window accepted at position i is the arithmetic
\* mean of the y_col values of rows [i+x_window_size, i+x_window_size+
\* y_window_size), each first divided by the y_col value of row i and
\* decremented by 1 when normalize is set, raw otherwise
C11_TargetIsMean ==
    \A k \in 1..Len(accepted) :
        accepted[k].y = MeanOfTargetRows(accepted[k].pos)

C11_Witness ==
    /\ cfg.normalize
    /\ y_col = 2
    /\ accepted # <<>>
    /\ IsFinite(accepted[1].y)
    /\ accepted[1].y # Num(0)
    /\ data[1][1] # data[1][2]

\* the scan positions of the table: 0 .. num_rows - x_window_size -
\* y_window_size, none when the windows do not fit
NumPositions ==
    IF Len(data) >= XSize + YSize THEN Len(data) - XSize - YSize + 1 ELSE 0

\* C12: a scan pulled to exhaustion ends after finitely many steps, having
\* examined the positions 0 .. num_rows - x_window_size - y_window_size once
\* each, in increasing order, accepted and rejected windows alike: the
\* positions examined so far are 0, 1, .., i-1, the index i never passes the
\* number of positions and equals it when the scan has returned, and until
\* then the scan can always take its next step (the guard of ScanReject,
\* ScanAccept or ScanEnd holds) or be resumed by the writer's next pull
C12_ScanTerminates ==
    /\ \A k \in 1..Len(visited) : visited[k] = k - 1
    /\ g_pc \in {"scan", "yielded", "done"} =>
          /\ i = Len(visited)
          /\ i <= NumPositions
    /\ g_pc = "done" => i = NumPositions
    /\ g_pc = "scan" =>
          \/ ENABLED ScanReject
          \/ ENABLED ScanEnd
          \/ ScanEnabled /\ ~(HasNull(XWindow) \/ HasNull(YWindow))
    /\ g_pc = "yielded" => w_pc \in {"first_pull", "loop_pull"}

C12_Witness ==
    /\ g_pc = "done"
    /\ Len(visited) >= 3
    /\ accepted # <<>>
    /\ Len(accepted) < Len(visited)

\* what the datasets hold when every batch received so far has been stored at
\* the end of x and of y, in the order received
StoredInOrder ==
    w_pc \in {"loop_pull", "done"} =>
        /\ hf.x = StoreX(ConcatX(consumed))
        /\ hf.y = StoreY(ConcatY(consumed))
        /\ w_pc = "done" => consumed = emitted

\* C13: the datasets grow only by appending: after the first write and after
\* every append, x and y are the concatenation, in emission order, of the
\* batches received so far (so an append keeps every earlier entry and adds
\* at the end), and on completion they equal the concatenation of all the
\* batches clean_data produced
C13_AppendOnly ==
    w_pc \in {"loop_pull", "done"} =>
        /\ hf.x = ConcatX(consumed)
        /\ hf.y = ConcatY(consumed)
        /\ w_pc = "done" => consumed = emitted

\* the columns in which the base row of the input window at position pos is
\* zero
ZeroBaseColumns(pos) == {c \in 1..Len(data[pos + 1]) : data[pos + 1][c] = Num(0)}

\* position pos has complete windows and a zero cell in its base row
ZeroBaseWindow(pos) ==
    /\ pos + XSize + YSize <= Len(data)
    /\ ~MissingIn(pos, pos + XSize + YSize)
    /\ ZeroBaseColumns(pos) # {}

\* C14: with normalize set, a visited position whose windows are complete and
\* whose base row has a zero cell is accepted without an error: it is the
\* next entry of the accepted windows and of the batch being accumulated,
\* the scan moves on by one row, and the cells of the zero columns are the
\* non-finite quotients by zero, the same in the accumulator and in the
\* emitted batches
C14_ZeroBaseAccepted ==
    cfg.normalize =>
        \A j \in 1..Len(visited) :
            LET pos == visited[j]
                all == ConcatX(emitted) \o x_data
            IN  ZeroBaseWindow(pos) =>
                  /\ g_pc # "raised"
                  /\ IF j < Len(visited) THEN visited[j + 1] = pos + 1
                                         ELSE i = pos + 1
                  /\ \E k \in 1..Len(accepted) :
                        /\ accepted[k].pos = pos
                        /\ k <= Len(all)
                        /\ all[k] = accepted[k].x
                        /\ (ConcatY(emitted) \o y_data)[k] = accepted[k].y
                        /\ \A c \in ZeroBaseColumns(pos) :
                              /\ \A r \in 1..XSize :
                                    /\ ~IsFinite(all[k][r][c])
                                    /\ all[k][r][c] =
                                         Sub(Div(data[pos + r][c], Num(0)), Num(1))
                              /\ c = y_col => ~IsFinite(accepted[k].y)

C14_Witness ==
    /\ cfg.normalize
    /\ g_pc = "done"
    /\ Len(emitted) >= 1
    /\ \E k \in 1..Len(emitted[1].x) :
          /\ ZeroBaseWindow(accepted[k].pos)
          /\ emitted[1].x[k][1][1] = NaN
          /\ XSize >= 2
          /\ emitted[1].x[k][2][1] = PosInf
    /\ \E k \in 1..Len(accepted) : IsFinite(accepted[k].y)

\* C15: when the scan has ended, the accepted windows left in the
\* accumulator, which are never yielded, number at most batch_size
C15_LeftoverBounded ==
    g_pc = "done" =>
        /\ Len(x_data) <= Batch_size
        /\ Len(y_data) <= Batch_size

\* C16: at every point of the scan the batches emitted so far, concatenated,
\* are the first accepted windows in scan order and the accumulator holds the
\* accepted windows after them, so that nothing is emitted twice, skipped or
\* reordered; every emitted batch is non-empty and has as many targets as
\* input windows
C16_EmittedIsPrefix ==
    LET ex == ConcatX(emitted)
        ey == ConcatY(emitted)
    IN  /\ Len(ex) <= Len(accepted)
        /\ \A k \in 1..Len(ex) : ex[k] = accepted[k].x
        /\ Len(ey) = Len(ex)
        /\ \A k \in 1..Len(ey) : ey[k] = accepted[k].y
        /\ ex \o x_data = [k \in 1..Len(accepted) |-> accepted[k].x]
        /\ ey \o y_data = [k \in 1..Len(accepted) |-> accepted[k].y]
        /\ \A b \in 1..Len(emitted) :
              /\ Len(emitted[b].x) >= 1
              /\ Len(emitted[b].x) = Len(emitted[b].y)

C16_Witness ==
    /\ g_pc = "done"
    /\ TableHasMissing
    /\ Len(emitted) >= 1
    /\ Len(emitted[1].x) # Batch_size
    /\ x_data # <<>>
    /\ \E j, k \in 1..Len(accepted) : accepted[j].x # accepted[k].x

====
